---- MODULE Spec2Model ----
(***************************************************************************)
(* A model of the scientific calculator of src/cal.py.                     *)
(*                                                                         *)
(* State: the expression buffer, the display variable, the                 *)
(* degrees/radians flag, the window title and the last answer of           *)
(* ScientificCalculator, plus two observation variables: the button whose  *)
(* command ran last and the exception its handler caught.                  *)
(*                                                                         *)
(* Text is a sequence of one-character strings.  The host evaluator        *)
(* (Python's eval on the names of make_math_env) is modelled by a lexer, a *)
(* parser and an evaluator for the expressions the buttons can build.      *)
(* Python floats are modelled by exact rationals (with a signed zero) or,  *)
(* for results of libm functions, by the decimal digits of the double; an  *)
(* evaluation that leaves the modelled range (magnitudes above MaxMag,     *)
(* libm arguments outside LibmRows, complex results) is "Unmodelled" and   *)
(* the '=' button is not pressed on such a buffer.                         *)
(***************************************************************************)
EXTENDS Integers, Sequences, FiniteSets, TLC

VARIABLES expression, screen_var, deg_mode, title, last_answer, pressed, caught

vars == <<expression, screen_var, deg_mode, title, last_answer, pressed, caught>>

(***************************************************************************)
(* Bounds of the model.                                                    *)
(***************************************************************************)
\* Largest magnitude of an integer, numerator or denominator that is computed.
MaxMag == 100000000
\* The longest buffer a run types, per keyboard.
MaxLenArith == 4
MaxLenAns == 4
MaxLenErr == 6
MaxLenFn == 5

(***************************************************************************)
(* Text.                                                                   *)
(***************************************************************************)
DigitChars == <<"0", "1", "2", "3", "4", "5", "6", "7", "8", "9">>

IsDigit(c) == \E d \in 1..10 : DigitChars[d] = c

DigitVal(c) == (CHOOSE d \in 1..10 : DigitChars[d] = c) - 1

Letters == {"a", "b", "c", "d", "e", "f", "g", "h", "i", "j", "k", "l", "m",
            "n", "o", "p", "q", "r", "s", "t", "u", "v", "w", "x", "y", "z",
            "E", "_"}

IsLetter(c) == c \in Letters

\* The characters of each button label of the grid.
LabelChars(label) ==
    CASE label = "sqrt" -> <<"s", "q", "r", "t">>
      [] label = "log"  -> <<"l", "o", "g">>
      [] label = "ln"   -> <<"l", "n">>
      [] label = "abs"  -> <<"a", "b", "s">>
      [] label = "pi"   -> <<"p", "i">>
      [] label = "sin"  -> <<"s", "i", "n">>
      [] label = "cos"  -> <<"c", "o", "s">>
      [] label = "tan"  -> <<"t", "a", "n">>
      [] label = "Ans"  -> <<"A", "n", "s">>
      [] OTHER          -> <<label>>

ErrorText == <<"E", "r", "r", "o", "r">>

AbsReprText == <<"<", "b", "u", "i", "l", "t", "-", "i", "n", " ",
                 "f", "u", "n", "c", "t", "i", "o", "n", " ", "a", "b", "s", ">">>

RECURSIVE NatToChars(_)
NatToChars(n) ==
    IF n < 10 THEN <<DigitChars[n + 1]>>
    ELSE NatToChars(n \div 10) \o <<DigitChars[(n % 10) + 1]>>

DigitsToChars(ds) == [i \in 1..Len(ds) |-> DigitChars[ds[i] + 1]]

(***************************************************************************)
(* Python values.  Every value is a record of the same shape; k is the     *)
(* type: "none", "int", "float" (a double modelled by the rational         *)
(* num/den, neg its sign bit), "dec" (a double given by the digits digs of *)
(* its shortest repr, d.ddd * 10^exp), "func" (a callable of the           *)
(* environment) and "tuple" (the empty tuple).  cr says that a "float" is  *)
(* the double nearest to num/den, which is what its repr depends on.       *)
(***************************************************************************)
V0 == [k |-> "none", neg |-> FALSE, num |-> 0, den |-> 1, cr |-> TRUE,
       digs |-> <<>>, exp |-> 0, name |-> ""]

NoneVal == V0

Mag(n) == IF n < 0 THEN -n ELSE n

IntVal(n) == [V0 EXCEPT !.k = "int", !.neg = (n < 0), !.num = Mag(n)]

FloatVal(neg, num, den, cr) ==
    [V0 EXCEPT !.k = "float", !.neg = neg, !.num = num, !.den = den, !.cr = cr]

DecVal(neg, digs, exp) ==
    [V0 EXCEPT !.k = "dec", !.neg = neg, !.digs = digs, !.exp = exp]

FuncVal(name) == [V0 EXCEPT !.k = "func", !.name = name]

TupleVal == [V0 EXCEPT !.k = "tuple"]

IsNumber(v) == v.k \in {"int", "float", "dec"}

\* The signed numerator of an int or a rational float.
Signed(v) == IF v.neg THEN -v.num ELSE v.num

\* The outcome of evaluating something: a value, or the exception raised.
Ok(v) == [ok |-> TRUE, v |-> v, err |-> "none"]

Raise(e) == [ok |-> FALSE, v |-> V0, err |-> e]

Unmodelled == Raise("Unmodelled")

(***************************************************************************)
(* Arithmetic of the host language on ints and floats.                     *)
(***************************************************************************)
RECURSIVE GCD(_, _)
GCD(a, b) == IF b = 0 THEN a ELSE GCD(b, a % b)

\* a * b stays within the modelled magnitudes (a, b >= 0).
Fits(a, b) == a = 0 \/ b <= MaxMag \div a

RECURSIVE PowerOfTwo(_)
PowerOfTwo(d) == d = 1 \/ (d % 2 = 0 /\ PowerOfTwo(d \div 2))

\* The double holds exactly the number the model holds.
Exact(v) == v.k = "int" \/ (v.k = "float" /\ v.cr /\ PowerOfTwo(v.den))

\* The float sn/den (den > 0); negzero is the sign of a zero result.
MkFloat(sn, den, negzero, cr) ==
    LET g == GCD(Mag(sn), den)
        n == Mag(sn) \div g
        d == den \div g
    IN  IF n > MaxMag \/ d > MaxMag THEN Unmodelled
        ELSE Ok(FloatVal(IF sn = 0 THEN negzero ELSE sn < 0, n, d, cr))

MkInt(n) == IF Mag(n) > MaxMag THEN Unmodelled ELSE Ok(IntVal(n))

\* float(x) for an int or a rational float.
ToFloat(v) == IF v.k = "int" THEN FloatVal(v.neg, v.num, 1, TRUE) ELSE v

Negate(v) ==
    CASE v.k = "int" -> Ok(IntVal(-Signed(v)))
      [] v.k \in {"float", "dec"} -> Ok([v EXCEPT !.neg = ~v.neg])
      [] OTHER -> Raise("TypeError")

Positive(v) == IF IsNumber(v) THEN Ok(v) ELSE Raise("TypeError")

PyAdd(a, b) ==
    CASE a.k = "tuple" /\ b.k = "tuple" -> Ok(TupleVal)
      [] ~(IsNumber(a) /\ IsNumber(b)) -> Raise("TypeError")
      [] a.k = "dec" \/ b.k = "dec" -> Unmodelled
      [] a.k = "int" /\ b.k = "int" -> MkInt(Signed(a) + Signed(b))
      [] OTHER ->
          IF ~(Fits(a.num, b.den) /\ Fits(b.num, a.den) /\ Fits(a.den, b.den))
          THEN Unmodelled
          ELSE LET x == Signed(a) * b.den
                   y == Signed(b) * a.den
                   fa == ToFloat(a)
                   fb == ToFloat(b)
                   big == IF Mag(x) > Mag(y) THEN Mag(x) ELSE Mag(y)
               IN  \* a cancellation of rounded operands is not the rational's
                   IF ~(Exact(a) /\ Exact(b)) /\ Mag(x + y) < big \div 1000 + 1
                      /\ big # 0
                   THEN Unmodelled
                   ELSE MkFloat(x + y, a.den * b.den, fa.neg /\ fb.neg,
                                Exact(a) /\ Exact(b))

PySub(a, b) ==
    CASE ~(IsNumber(a) /\ IsNumber(b)) -> Raise("TypeError")
      [] a.k = "int" /\ b.k = "int" -> MkInt(Signed(a) - Signed(b))
      [] b.k = "int" -> PyAdd(a, [ToFloat(b) EXCEPT !.neg = ~b.neg])
      [] OTHER -> PyAdd(a, [b EXCEPT !.neg = ~b.neg])

PyMul(a, b) ==
    CASE (a.k = "tuple" /\ b.k = "int") \/ (a.k = "int" /\ b.k = "tuple") ->
          Ok(TupleVal)
      [] ~(IsNumber(a) /\ IsNumber(b)) -> Raise("TypeError")
      [] a.k = "dec" \/ b.k = "dec" -> Unmodelled
      [] a.k = "int" /\ b.k = "int" ->
          IF Fits(a.num, b.num) THEN MkInt(Signed(a) * Signed(b)) ELSE Unmodelled
      [] OTHER ->
          IF ~(Fits(a.num, b.num) /\ Fits(a.den, b.den)) THEN Unmodelled
          ELSE MkFloat(Signed(a) * Signed(b), a.den * b.den, a.neg # b.neg,
                       Exact(a) /\ Exact(b))

PyTrueDiv(a, b) ==
    CASE ~(IsNumber(a) /\ IsNumber(b)) -> Raise("TypeError")
      [] a.k = "dec" \/ b.k = "dec" ->
          IF b.k # "dec" /\ b.num = 0 THEN Raise("ZeroDivisionError") ELSE Unmodelled
      [] b.num = 0 -> Raise("ZeroDivisionError")
      [] OTHER ->
          IF ~(Fits(a.num, b.den) /\ Fits(a.den, b.num)) THEN Unmodelled
          ELSE MkFloat((IF a.neg # b.neg THEN -1 ELSE 1) * (a.num * b.den),
                       a.den * b.num, a.neg # b.neg, Exact(a) /\ Exact(b))

\* floor(x / y) for integers, y # 0.
FloorQuot(x, y) ==
    LET q == Mag(x) \div Mag(y)
        r == Mag(x) % Mag(y)
    IN  IF (x < 0) = (y < 0) \/ x = 0 THEN q
        ELSE IF r = 0 THEN -q ELSE -(q + 1)

PyFloorDiv(a, b) ==
    CASE ~(IsNumber(a) /\ IsNumber(b)) -> Raise("TypeError")
      [] a.k = "dec" \/ b.k = "dec" ->
          IF b.k # "dec" /\ b.num = 0 THEN Raise("ZeroDivisionError") ELSE Unmodelled
      [] b.num = 0 -> Raise("ZeroDivisionError")
      [] a.k = "int" /\ b.k = "int" -> MkInt(FloorQuot(Signed(a), Signed(b)))
      [] OTHER ->
          \* the float floor is the rational's only for exactly held operands
          IF ~(Exact(a) /\ Exact(b)) \/ ~(Fits(a.num, b.den) /\ Fits(a.den, b.num))
          THEN Unmodelled
          ELSE MkFloat(FloorQuot(Signed(a) * b.den, Signed(b) * a.den), 1,
                       a.neg # b.neg, TRUE)

RECURSIVE NatPow(_, _)
\* base^e for naturals, or -1 once it leaves the modelled magnitudes.
NatPow(base, e) ==
    IF e = 0 THEN 1
    ELSE LET p == NatPow(base, e - 1)
         IN  IF p = -1 \/ ~Fits(p, base) THEN -1 ELSE p * base

PyPow(a, b) ==
    CASE ~(IsNumber(a) /\ IsNumber(b)) -> Raise("TypeError")
      [] a.k = "dec" \/ b.k = "dec" -> Unmodelled
      [] b.k = "float" /\ b.den # 1 -> Unmodelled
      [] b.num > 64 -> Unmodelled
      [] b.num = 0 -> IF a.k = "int" /\ b.k = "int" THEN Ok(IntVal(1))
                      ELSE Ok(FloatVal(FALSE, 1, 1, TRUE))
      [] a.num = 0 /\ b.neg -> Raise("ZeroDivisionError")
      [] OTHER ->
          LET n == NatPow(a.num, b.num)
              d == NatPow(a.den, b.num)
              odd == b.num % 2 = 1
              sgn == IF a.neg /\ odd THEN -1 ELSE 1
          IN  IF n = -1 \/ d = -1 THEN Unmodelled
              ELSE IF a.k = "int" /\ b.k = "int" /\ ~b.neg THEN MkInt(sgn * n)
              ELSE IF b.neg THEN MkFloat(sgn * d, n, a.neg /\ odd, FALSE)
              ELSE MkFloat(sgn * n, d, a.neg /\ odd, Exact(a))

BinOp(op, a, b) ==
    CASE op = "+"  -> PyAdd(a, b)
      [] op = "-"  -> PySub(a, b)
      [] op = "*"  -> PyMul(a, b)
      [] op = "/"  -> PyTrueDiv(a, b)
      [] op = "//" -> PyFloorDiv(a, b)
      [] op = "**" -> PyPow(a, b)

(***************************************************************************)
(* Conversions to text: str() and the "%.12g" format.                      *)
(***************************************************************************)
RECURSIVE NatDigits(_)
NatDigits(n) == IF n < 10 THEN <<n>> ELSE Append(NatDigits(n \div 10), n % 10)

RECURSIVE Frac(_, _, _, _)
\* n more digits of r/den (r < den) after acc, and the remainder left.
Frac(r, den, n, acc) ==
    IF n = 0 THEN <<acc, r>>
    ELSE Frac((r * 10) % den, den, n - 1, Append(acc, (r * 10) \div den))

RECURSIVE LeadZeros(_, _)
\* The zeros between the point and the first digit of r/den (0 < r < den).
LeadZeros(r, den) == IF r * 10 >= den THEN 0 ELSE 1 + LeadZeros(r * 10, den)

RECURSIVE TenTo(_)
TenTo(n) == IF n = 0 THEN 1 ELSE 10 * TenTo(n - 1)

\* The first n significant digits of num/den (num > 0), the decimal
\* exponent of the first one and the remainder left after the last one.
Expansion(num, den, n) ==
    LET ip == num \div den
        r0 == num % den
    IN  IF ip > 0
        THEN LET id == NatDigits(ip)
                 f  == Frac(r0, den, n - Len(id), <<>>)
             IN  [digs |-> id \o f[1], exp |-> Len(id) - 1, rem |-> f[2]]
        ELSE LET z == LeadZeros(r0, den)
                 f == Frac(r0 * TenTo(z), den, n, <<>>)
             IN  [digs |-> f[1], exp |-> -(z + 1), rem |-> f[2]]

RECURSIVE Increment(_)
\* The digit sequence plus one in its last place; a carry out of the first
\* digit gives 1 followed by zeros of the same length.
Increment(ds) ==
    IF Len(ds) = 0 THEN <<1>>
    ELSE IF ds[Len(ds)] < 9 THEN [ds EXCEPT ![Len(ds)] = ds[Len(ds)] + 1]
    ELSE LET up == Increment(SubSeq(ds, 1, Len(ds) - 1))
         IN  IF Len(up) = Len(ds) THEN SubSeq(up, 1, Len(ds))
             ELSE Append(up, 0)

RECURSIVE StripZeros(_)
StripZeros(ds) ==
    IF Len(ds) > 1 /\ ds[Len(ds)] = 0 THEN StripZeros(SubSeq(ds, 1, Len(ds) - 1))
    ELSE ds

\* digs rounded half-even given whether what follows is above, at or below
\* half a unit of the last digit: the digits and the exponent.
Rounded(digs, exp, tail) ==
    LET up == tail = "above" \/ (tail = "half" /\ digs[Len(digs)] % 2 = 1)
        inc == Increment(digs)
    IN  IF ~up THEN [digs |-> digs, exp |-> exp]
        ELSE IF Len(inc) > Len(digs)
             THEN [digs |-> SubSeq(inc, 1, Len(digs)), exp |-> exp + 1]
             ELSE [digs |-> inc, exp |-> exp]

Zeros(n) == [i \in 1..n |-> "0"]

\* Two or more digits of a decimal exponent, signed.
ExpChars(e) ==
    <<"e", IF e < 0 THEN "-" ELSE "+">>
    \o (IF Mag(e) < 10 THEN <<"0">> ELSE <<>>) \o NatToChars(Mag(e))

\* d.ddd * 10^exp in scientific notation.
SciChars(ds, exp) ==
    <<DigitChars[ds[1] + 1]>>
    \o (IF Len(ds) > 1 THEN <<".">> \o DigitsToChars(SubSeq(ds, 2, Len(ds))) ELSE <<>>)
    \o ExpChars(exp)

\* d.ddd * 10^exp in positional notation; point0 appends ".0" to an integer.
FixedChars(ds, exp, point0) ==
    IF exp < 0
    THEN <<"0", ".">> \o Zeros(-exp - 1) \o DigitsToChars(ds)
    ELSE IF Len(ds) <= exp + 1
         THEN DigitsToChars(ds) \o Zeros(exp + 1 - Len(ds))
              \o (IF point0 THEN <<".", "0">> ELSE <<>>)
         ELSE DigitsToChars(SubSeq(ds, 1, exp + 1)) \o <<".">>
              \o DigitsToChars(SubSeq(ds, exp + 2, Len(ds)))

SignChars(neg) == IF neg THEN <<"-">> ELSE <<>>

\* The significant digits kept by the display format.
Precision == 12

\* What follows the first n digits of a digit sequence, against half a unit.
TailOf(ds, n) ==
    IF Len(ds) <= n \/ \A i \in (n + 1)..Len(ds) : ds[i] = 0 THEN "below"
    ELSE IF ds[n + 1] > 5 THEN "above"
    ELSE IF ds[n + 1] < 5 THEN "below"
    ELSE IF \A i \in (n + 2)..Len(ds) : ds[i] = 0 THEN "half"
    ELSE "above"

\* f"{x:.12g}" of a float (src/cal.py line 165).
Format12g(v) ==
    IF v.k = "float" /\ v.num = 0 THEN SignChars(v.neg) \o <<"0">>
    ELSE LET r == IF v.k = "float"
                  THEN LET x == Expansion(v.num, v.den, Precision)
                       IN  Rounded(x.digs, x.exp,
                                   IF 2 * x.rem > v.den THEN "above"
                                   ELSE IF 2 * x.rem = v.den THEN "half"
                                   ELSE "below")
                  ELSE IF Len(v.digs) <= Precision
                       THEN [digs |-> v.digs, exp |-> v.exp]
                       ELSE Rounded(SubSeq(v.digs, 1, Precision), v.exp,
                                    TailOf(v.digs, Precision))
             ds == StripZeros(r.digs)
         IN  SignChars(v.neg)
             \o (IF r.exp < -4 \/ r.exp >= Precision THEN SciChars(ds, r.exp)
                 ELSE FixedChars(ds, r.exp, FALSE))

\* The most digits of a decimal that is certainly the shortest repr of the
\* double nearest to it.
ReprDigits == 15

\* str() is modelled for v: for a rational float, when the double is the one
\* nearest to num/den and num/den is a decimal of at most ReprDigits digits.
ReprModelled(v) ==
    CASE v.k = "float" ->
          IF v.num = 0 THEN TRUE
          ELSE v.cr /\ Expansion(v.num, v.den, ReprDigits).rem = 0
      [] v.k = "func" -> v.name = "abs"
      [] OTHER -> TRUE

\* str(x): repr of a float, decimal of an int, the names of the others.
PyStr(v) ==
    CASE v.k = "none" -> <<"N", "o", "n", "e">>
      [] v.k = "int" -> SignChars(v.neg) \o NatToChars(v.num)
      [] v.k = "tuple" -> <<"(", ")">>
      [] v.k = "func" -> AbsReprText
      [] v.k = "float" /\ v.num = 0 -> SignChars(v.neg) \o <<"0", ".", "0">>
      [] OTHER ->
          LET x  == IF v.k = "float" THEN Expansion(v.num, v.den, ReprDigits)
                    ELSE [digs |-> v.digs, exp |-> v.exp, rem |-> 0]
              ds == StripZeros(x.digs)
          IN  SignChars(v.neg)
              \o (IF x.exp < -4 \/ x.exp >= 16 THEN SciChars(ds, x.exp)
                  ELSE FixedChars(ds, x.exp, TRUE))

(***************************************************************************)
(* The lexer of the host evaluator, on the characters the buttons and the  *)
(* text of an answer can put into the buffer.  A token is a number (with   *)
(* its value, or Unmodelled), a name or an operator.                       *)
(***************************************************************************)
Tok(t, r, id, o) == [t |-> t, r |-> r, id |-> id, o |-> o]

NumTok(r) == Tok("num", r, <<>>, "")

NameTok(id) == Tok("name", Unmodelled, id, "")

OpTok(o) == Tok("op", Unmodelled, <<>>, o)

\* s[i], or "" past the end.
At(s, i) == IF i >= 1 /\ i <= Len(s) THEN s[i] ELSE ""

RECURSIVE ScanDigits(_, _)
\* The first position from i on that holds no digit.
ScanDigits(s, i) == IF IsDigit(At(s, i)) THEN ScanDigits(s, i + 1) ELSE i

RECURSIVE ScanName(_, _)
ScanName(s, i) ==
    IF IsLetter(At(s, i)) \/ IsDigit(At(s, i)) THEN ScanName(s, i + 1) ELSE i

\* The digits s[i..j-1] as numbers.
DigitsOf(s, i, j) == [n \in 1..(j - i) |-> DigitVal(s[i + n - 1])]

RECURSIVE DropLeadingZeros(_)
DropLeadingZeros(ds) ==
    IF Len(ds) > 0 /\ ds[1] = 0 THEN DropLeadingZeros(Tail(ds)) ELSE ds

RECURSIVE DropTrailingZeros(_)
DropTrailingZeros(ds) ==
    IF Len(ds) > 0 /\ ds[Len(ds)] = 0
    THEN DropTrailingZeros(SubSeq(ds, 1, Len(ds) - 1)) ELSE ds

RECURSIVE NatOf(_)
\* The number a sequence of at most 9 digits writes.
NatOf(ds) ==
    IF Len(ds) = 0 THEN 0 ELSE 10 * NatOf(SubSeq(ds, 1, Len(ds) - 1)) + ds[Len(ds)]

\* The value of an integer literal with the significant digits sig.
IntOf(sig) == IF Len(sig) > 9 THEN Unmodelled ELSE MkInt(NatOf(sig))

IntLiteral(ds) == IntOf(DropLeadingZeros(ds))

\* The float with significant digits sig, the last of weight 10^e and the
\* first of weight 10^top: a rational the model holds, or its digits.
FloatOf(sig, e, top) ==
    IF Len(sig) = 0 THEN Ok(FloatVal(FALSE, 0, 1, TRUE))
    ELSE IF Len(sig) <= 8 /\ e >= -8 /\ top <= 7
         THEN IF e >= 0 THEN MkFloat(NatOf(sig) * TenTo(e), 1, FALSE, TRUE)
              ELSE MkFloat(NatOf(sig), TenTo(-e), FALSE, TRUE)
    ELSE IF Len(sig) <= 17 /\ top >= -300 /\ top <= 300
         THEN Ok([DecVal(FALSE, sig, top) EXCEPT !.cr = (Len(sig) <= ReprDigits)])
    ELSE Unmodelled

FloatSig(lead, sig, e10) ==
    FloatOf(sig, e10 + (Len(lead) - Len(sig)), e10 + Len(lead) - 1)

FloatLead(lead, e10) == FloatSig(lead, DropTrailingZeros(lead), e10)

\* The value of the float literal with mantissa digits ds, the last of
\* them of weight 10^e10.
FloatLiteral(ds, e10) == FloatLead(DropLeadingZeros(ds), e10)

\* A number token and the position after it, or a lexical error.
Lexed(ok, r, next) == [ok |-> ok, tok |-> NumTok(r), next |-> next]

\* The decimal integer with digits ip: one with a leading zero is an error
\* unless it is all zeros.
IntToken(ip, next) ==
    Lexed(~(Len(ip) > 1 /\ ip[1] = 0 /\ \E n \in 1..Len(ip) : ip[n] # 0),
          IntLiteral(ip), next)

\* The exponent written by the digits ed (at most 1000), signed.
ExponentOf(ed, minus) ==
    IF Len(ed) > 3 THEN (IF minus THEN -1000 ELSE 1000)
    ELSE IF minus THEN -NatOf(ed) ELSE NatOf(ed)

\* The float with integer digits ip, fraction digits fp and exponent ev.
FloatToken(ip, fp, ev, next) == Lexed(TRUE, FloatLiteral(ip \o fp, ev - Len(fp)), next)

\* The number s[i..j3-1]: integer part to j1, fraction to j2, and an
\* exponent whose digits are s[e1..j3-1] when expo.
NumberToken(s, i, j1, j2, e1, expo, j3) ==
    IF IsLetter(At(s, j3)) THEN Lexed(FALSE, Unmodelled, j3)
    ELSE IF At(s, j1) # "." /\ ~expo THEN IntToken(DigitsOf(s, i, j1), j3)
    ELSE FloatToken(DigitsOf(s, i, j1),
                    IF At(s, j1) = "." THEN DigitsOf(s, j1 + 1, j2) ELSE <<>>,
                    IF expo
                    THEN ExponentOf(DropLeadingZeros(DigitsOf(s, e1, j3)),
                                    At(s, j2 + 1) = "-")
                    ELSE 0,
                    j3)

\* The exponent part, if there is one: 'e', a sign or none, then a digit.
LexExponent(s, i, j1, j2, e1) ==
    IF At(s, j2) \in {"e", "E"} /\ IsDigit(At(s, e1))
    THEN NumberToken(s, i, j1, j2, e1, TRUE, ScanDigits(s, e1))
    ELSE NumberToken(s, i, j1, j2, e1, FALSE, j2)

\* The fraction part from the end j1 of the integer part.
LexFraction(s, i, j1, j2) ==
    LexExponent(s, i, j1, j2, IF At(s, j2 + 1) \in {"+", "-"} THEN j2 + 2 ELSE j2 + 1)

LexPoint(s, i, j1) ==
    LexFraction(s, i, j1, IF At(s, j1) = "." THEN ScanDigits(s, j1 + 1) ELSE j1)

\* The number token that starts at s[i].
LexNumber(s, i) == LexPoint(s, i, ScanDigits(s, i))

RECURSIVE LexFrom(_, _, _)

\* After the number n: go on behind it, or stop at its error.
LexAfterNumber(s, acc, n) ==
    IF n.ok THEN LexFrom(s, n.next, Append(acc, n.tok))
    ELSE [ok |-> FALSE, toks |-> acc]

LexAfterName(s, i, j, acc) == LexFrom(s, j, Append(acc, NameTok(SubSeq(s, i, j - 1))))

\* The tokens of s from position i on, after the tokens acc.
LexFrom(s, i, acc) ==
    IF i > Len(s) THEN [ok |-> TRUE, toks |-> acc]
    ELSE IF s[i] = " " THEN LexFrom(s, i + 1, acc)
    ELSE IF IsDigit(s[i]) \/ (s[i] = "." /\ IsDigit(At(s, i + 1)))
    THEN LexAfterNumber(s, acc, LexNumber(s, i))
    ELSE IF IsLetter(s[i]) THEN LexAfterName(s, i, ScanName(s, i), acc)
    ELSE IF s[i] \in {"*", "/"} /\ At(s, i + 1) = s[i]
    THEN LexFrom(s, i + 2, Append(acc, OpTok(IF s[i] = "*" THEN "**" ELSE "//")))
    ELSE IF s[i] \in {"+", "-", "*", "/", "(", ")", ".", "%", "<", ">"}
    THEN LexFrom(s, i + 1, Append(acc, OpTok(s[i])))
    ELSE [ok |-> FALSE, toks |-> acc]

Lex(s) == LexFrom(s, 1, <<>>)

(***************************************************************************)
(* The parser of the host evaluator: the expression grammar on these       *)
(* tokens (sums, products, unary signs, powers, calls, attribute           *)
(* references, parentheses and the empty tuple).                           *)
(***************************************************************************)
Parsed(ast, next) == [ok |-> TRUE, ast |-> ast, next |-> next]

NoParse == [ok |-> FALSE, ast |-> [n |-> "none"], next |-> 0]

IsOp(toks, p, ops) == p <= Len(toks) /\ toks[p].t = "op" /\ toks[p].o \in ops

Bin(op, l, r) == [n |-> "bin", op |-> op, l |-> l, r |-> r]

RECURSIVE ParseExpr(_, _), ExprRest(_, _, _), ParseTerm(_, _), TermRest(_, _, _),
          ParseFactor(_, _), ParsePower(_, _), ParseAtom(_, _), Trailers(_, _, _)

\* Each step of the grammar hands what it parsed (l, r, e: a syntax tree
\* and the position after it, or NoParse) to the step that follows it.
ExprFrom(toks, l) == IF l.ok THEN ExprRest(toks, l.ast, l.next) ELSE NoParse

ParseExpr(toks, p) == ExprFrom(toks, ParseTerm(toks, p))

ExprMore(toks, op, left, r) ==
    IF r.ok THEN ExprRest(toks, Bin(op, left, r.ast), r.next) ELSE NoParse

ExprRest(toks, left, p) ==
    IF ~IsOp(toks, p, {"+", "-"}) THEN Parsed(left, p)
    ELSE ExprMore(toks, toks[p].o, left, ParseTerm(toks, p + 1))

TermFrom(toks, l) == IF l.ok THEN TermRest(toks, l.ast, l.next) ELSE NoParse

ParseTerm(toks, p) == TermFrom(toks, ParseFactor(toks, p))

TermMore(toks, op, left, r) ==
    IF r.ok THEN TermRest(toks, Bin(op, left, r.ast), r.next) ELSE NoParse

TermRest(toks, left, p) ==
    IF ~IsOp(toks, p, {"*", "/", "//"}) THEN Parsed(left, p)
    ELSE TermMore(toks, toks[p].o, left, ParseFactor(toks, p + 1))

Signed1(op, e) ==
    IF e.ok THEN Parsed([n |-> "un", op |-> op, e |-> e.ast], e.next) ELSE NoParse

ParseFactor(toks, p) ==
    IF IsOp(toks, p, {"+", "-"}) THEN Signed1(toks[p].o, ParseFactor(toks, p + 1))
    ELSE ParsePower(toks, p)

Raised(base, e) == IF e.ok THEN Parsed(Bin("**", base, e.ast), e.next) ELSE NoParse

PowerOf(toks, b) ==
    IF ~b.ok THEN NoParse
    ELSE IF ~IsOp(toks, b.next, {"**"}) THEN b
    ELSE Raised(b.ast, ParseFactor(toks, b.next + 1))

PrimaryFrom(toks, a) == IF a.ok THEN Trailers(toks, a.ast, a.next) ELSE NoParse

ParsePower(toks, p) == PowerOf(toks, PrimaryFrom(toks, ParseAtom(toks, p)))

Closed(toks, e) ==
    IF e.ok /\ IsOp(toks, e.next, {")"}) THEN Parsed(e.ast, e.next + 1) ELSE NoParse

ParseAtom(toks, p) ==
    IF p > Len(toks) THEN NoParse
    ELSE IF toks[p].t = "num" THEN Parsed([n |-> "num", r |-> toks[p].r], p + 1)
    ELSE IF toks[p].t = "name" THEN Parsed([n |-> "name", id |-> toks[p].id], p + 1)
    ELSE IF IsOp(toks, p, {"("})
    THEN IF IsOp(toks, p + 1, {")"}) THEN Parsed([n |-> "tuple"], p + 2)
         ELSE Closed(toks, ParseExpr(toks, p + 1))
    ELSE NoParse

Call(f, args, a) == [n |-> "call", f |-> f, args |-> args, a |-> a]

Called(toks, node, args, e) ==
    IF e.ok /\ IsOp(toks, e.next, {")"})
    THEN Trailers(toks, Call(node, args, e.ast), e.next + 1)
    ELSE NoParse

\* The calls and attribute references that follow a primary.
Trailers(toks, node, p) ==
    IF IsOp(toks, p, {"("})
    THEN IF IsOp(toks, p + 1, {")"})
         THEN Trailers(toks, Call(node, "none", [n |-> "tuple"]), p + 2)
         ELSE IF IsOp(toks, p + 1, {"*", "**"})
         THEN Called(toks, node, "star", ParseExpr(toks, p + 2))
         ELSE Called(toks, node, "one", ParseExpr(toks, p + 1))
    ELSE IF IsOp(toks, p, {"."})
    THEN IF p + 1 <= Len(toks) /\ toks[p + 1].t = "name"
         THEN Trailers(toks, [n |-> "attr", e |-> node, id |-> toks[p + 1].id], p + 2)
         ELSE NoParse
    ELSE Parsed(node, p)

Whole(toks, e) == IF e.ok /\ e.next = Len(toks) + 1 THEN e ELSE NoParse

\* The syntax tree of a whole token sequence.
Parse(toks) == Whole(toks, ParseExpr(toks, 1))

(***************************************************************************)
(* The math library.  A result that is not a rational the model holds is   *)
(* looked up in LibmRows, the values of the library on the arguments the   *)
(* modelled keyboards reach; elsewhere it is Unmodelled.                   *)
(***************************************************************************)
Row(fn, arg, res) == [fn |-> fn, arg |-> arg, res |-> res]

LibmRows ==
    { Row("radians", FloatVal(FALSE, 3, 1, TRUE),
          DecVal(FALSE, <<5, 2, 3, 5, 9, 8, 7, 7, 5, 5, 9, 8, 2, 9, 8, 9>>, -2)),
      Row("radians", FloatVal(FALSE, 30, 1, TRUE),
          DecVal(FALSE, <<5, 2, 3, 5, 9, 8, 7, 7, 5, 5, 9, 8, 2, 9, 8, 8>>, -1)),
      Row("sin", DecVal(FALSE, <<5, 2, 3, 5, 9, 8, 7, 7, 5, 5, 9, 8, 2, 9, 8, 9>>, -2),
          DecVal(FALSE, <<5, 2, 3, 3, 5, 9, 5, 6, 2, 4, 2, 9, 4, 3, 8, 3, 5>>, -2)),
      Row("sin", DecVal(FALSE, <<5, 2, 3, 5, 9, 8, 7, 7, 5, 5, 9, 8, 2, 9, 8, 8>>, -1),
          DecVal(FALSE, <<4, 9, 9, 9, 9, 9, 9, 9, 9, 9, 9, 9, 9, 9, 9, 9, 4>>, -1)),
      Row("sin", FloatVal(FALSE, 3, 1, TRUE),
          DecVal(FALSE, <<1, 4, 1, 1, 2, 0, 0, 0, 8, 0, 5, 9, 8, 6, 7, 2>>, -1)),
      Row("sin", FloatVal(FALSE, 30, 1, TRUE),
          DecVal(TRUE, <<9, 8, 8, 0, 3, 1, 6, 2, 4, 0, 9, 2, 8, 6, 1, 8>>, -1)),
      Row("cos", DecVal(FALSE, <<5, 2, 3, 5, 9, 8, 7, 7, 5, 5, 9, 8, 2, 9, 8, 9>>, -2),
          DecVal(FALSE, <<9, 9, 8, 6, 2, 9, 5, 3, 4, 7, 5, 4, 5, 7, 3, 8>>, -1)),
      Row("cos", DecVal(FALSE, <<5, 2, 3, 5, 9, 8, 7, 7, 5, 5, 9, 8, 2, 9, 8, 8>>, -1),
          DecVal(FALSE, <<8, 6, 6, 0, 2, 5, 4, 0, 3, 7, 8, 4, 4, 3, 8, 7>>, -1)),
      Row("cos", FloatVal(FALSE, 3, 1, TRUE),
          DecVal(TRUE, <<9, 8, 9, 9, 9, 2, 4, 9, 6, 6, 0, 0, 4, 4, 5, 4>>, -1)),
      Row("cos", FloatVal(FALSE, 30, 1, TRUE),
          DecVal(FALSE, <<1, 5, 4, 2, 5, 1, 4, 4, 9, 8, 8, 7, 5, 8, 4, 0, 5>>, -1)),
      Row("tan", DecVal(FALSE, <<5, 2, 3, 5, 9, 8, 7, 7, 5, 5, 9, 8, 2, 9, 8, 9>>, -2),
          DecVal(FALSE, <<5, 2, 4, 0, 7, 7, 7, 9, 2, 8, 3, 0, 4, 1, 2, 1>>, -2)),
      Row("tan", DecVal(FALSE, <<5, 2, 3, 5, 9, 8, 7, 7, 5, 5, 9, 8, 2, 9, 8, 8>>, -1),
          DecVal(FALSE, <<5, 7, 7, 3, 5, 0, 2, 6, 9, 1, 8, 9, 6, 2, 5, 7>>, -1)),
      Row("tan", FloatVal(FALSE, 3, 1, TRUE),
          DecVal(TRUE, <<1, 4, 2, 5, 4, 6, 5, 4, 3, 0, 7, 4, 2, 7, 7, 8>>, -1)),
      Row("tan", FloatVal(FALSE, 30, 1, TRUE),
          DecVal(TRUE, <<6, 4, 0, 5, 3, 3, 1, 1, 9, 6, 6, 4, 6, 2, 7, 6>>, 0)) }

Libm(fn, x) ==
    LET key == [x EXCEPT !.cr = TRUE]
        hit == {row \in LibmRows : row.fn = fn /\ row.arg = key}
    IN  IF x.cr /\ hit # {} THEN Ok((CHOOSE row \in hit : TRUE).res) ELSE Unmodelled

IsZero(x) == x.k = "float" /\ x.num = 0

\* The square root of a natural when it is one, else -1.
Root(n) == IF \E r \in 0..10000 : r * r = n THEN CHOOSE r \in 0..10000 : r * r = n ELSE -1

\* math.sqrt on a float.
MathSqrt(x) ==
    IF IsZero(x) THEN Ok(x)
    ELSE IF x.neg THEN Raise("ValueError")
    ELSE IF x.k = "float" /\ Exact(x) /\ Root(x.num) # -1 /\ Root(x.den) # -1
         THEN Ok(FloatVal(FALSE, Root(x.num), Root(x.den), TRUE))
    ELSE Libm("sqrt", x)

RECURSIVE TenLog(_)
\* k when n = 10^k, else -1.
TenLog(n) == IF n = 1 THEN 0
             ELSE IF n % 10 # 0 THEN -1
             ELSE LET k == TenLog(n \div 10) IN IF k = -1 THEN -1 ELSE k + 1

\* math.log10 on a float.
MathLog10(x) ==
    IF IsZero(x) \/ x.neg THEN Raise("ValueError")
    ELSE IF x.k = "float" /\ x.cr /\ x.den = 1 /\ TenLog(x.num) # -1
         THEN Ok(FloatVal(FALSE, TenLog(x.num), 1, TRUE))
    ELSE IF x.k = "float" /\ x.cr /\ x.num = 1 /\ TenLog(x.den) # -1
         THEN Ok(FloatVal(TRUE, TenLog(x.den), 1, TRUE))
    ELSE Libm("log10", x)

\* math.log on a float.
MathLog(x) ==
    IF IsZero(x) \/ x.neg THEN Raise("ValueError")
    ELSE IF x.k = "float" /\ x.cr /\ x.num = 1 /\ x.den = 1
         THEN Ok(FloatVal(FALSE, 0, 1, TRUE))
    ELSE Libm("log", x)

MathRadians(x) == IF IsZero(x) THEN Ok(x) ELSE Libm("radians", x)

MathSin(x) == IF IsZero(x) THEN Ok(x) ELSE Libm("sin", x)

MathCos(x) == IF IsZero(x) THEN Ok(FloatVal(FALSE, 1, 1, TRUE)) ELSE Libm("cos", x)

MathTan(x) == IF IsZero(x) THEN Ok(x) ELSE Libm("tan", x)

MathPi == DecVal(FALSE, <<3, 1, 4, 1, 5, 9, 2, 6, 5, 3, 5, 8, 9, 7, 9, 3>>, 0)

MathE == DecVal(FALSE, <<2, 7, 1, 8, 2, 8, 1, 8, 2, 8, 4, 5, 9, 0, 4, 5>>, 0)

(***************************************************************************)
(* make_math_env: the names an expression may use.                         *)
(***************************************************************************)
\* math.sin, math.cos or math.tan.
MathFn(fn, y) ==
    CASE fn = "sin" -> MathSin(y)
      [] fn = "cos" -> MathCos(y)
      [] fn = "tan" -> MathTan(y)

\* fn(math.radians(x)): an exception of the conversion goes through.
MathFnOfRadians(fn, r) == IF r.ok THEN MathFn(fn, r.v) ELSE r

\* A version of the three functions that never reads the mode.
TrigFnInDegrees(fn, x, degrees_mode) == MathFnOfRadians(fn, MathRadians(x))

\* sin_fn, cos_fn and tan_fn are one here: fn is the library function,
\* degrees_mode the flag read when the function is called.
TrigFn(fn, x, degrees_mode) ==
    IF degrees_mode THEN MathFnOfRadians(fn, MathRadians(x)) ELSE MathFn(fn, x)

EnvFunctions == {"sin", "cos", "tan", "sqrt", "log", "ln", "abs", "round"}

EnvName(f) == IF f = "round" THEN <<"r", "o", "u", "n", "d">> ELSE LabelChars(f)

\* The value the environment binds to a name.
MakeMathEnv(id) ==
    CASE \E f \in EnvFunctions : EnvName(f) = id ->
          Ok(FuncVal(CHOOSE f \in EnvFunctions : EnvName(f) = id))
      [] id = <<"p", "i">> -> Ok(MathPi)
      [] id = <<"e">> -> Ok(MathE)
      [] OTHER -> Raise("NameError")

\* The call f(x) of a function of the environment on one argument.
CallEnv(f, x, degrees_mode) ==
    CASE ~IsNumber(x) -> Raise("TypeError")
      [] f = "abs" -> Ok([x EXCEPT !.neg = FALSE])
      [] f = "round" -> Unmodelled
      [] f \in {"sin", "cos", "tan"} -> TrigFn(f, ToFloat(x), degrees_mode)
      [] f = "sqrt" -> MathSqrt(ToFloat(x))
      [] f = "log" -> MathLog10(ToFloat(x))
      [] f = "ln" -> MathLog(ToFloat(x))

(***************************************************************************)
(* The evaluator: the value of a syntax tree, operands left to right.      *)
(***************************************************************************)
RECURSIVE EvalTree(_, _)
EvalTree(t, degrees_mode) ==
    CASE t.n = "num" -> t.r
      [] t.n = "name" -> MakeMathEnv(t.id)
      [] t.n = "tuple" -> Ok(TupleVal)
      [] t.n = "un" ->
          LET e == EvalTree(t.e, degrees_mode)
          IN  IF ~e.ok THEN e
              ELSE IF t.op = "-" THEN Negate(e.v) ELSE Positive(e.v)
      [] t.n = "bin" ->
          LET l == EvalTree(t.l, degrees_mode)
              r == EvalTree(t.r, degrees_mode)
          IN  IF ~l.ok THEN l
              ELSE IF ~r.ok THEN r
              ELSE BinOp(t.op, l.v, r.v)
      [] t.n = "attr" ->
          LET e == EvalTree(t.e, degrees_mode)
          IN  IF ~e.ok THEN e ELSE Raise("AttributeError")
      [] t.n = "call" ->
          LET f == EvalTree(t.f, degrees_mode)
              a == IF t.args = "none" THEN Ok(TupleVal) ELSE EvalTree(t.a, degrees_mode)
          IN  IF ~f.ok THEN f
              ELSE IF ~a.ok THEN a
              ELSE IF f.v.k # "func" \/ t.args # "one" THEN Raise("TypeError")
              ELSE CallEnv(f.v.name, a.v, degrees_mode)

EvalParsed(tree, degrees_mode) ==
    IF ~tree.ok THEN Raise("SyntaxError") ELSE EvalTree(tree.ast, degrees_mode)

ParseLexed(lexed) == IF lexed.ok THEN Parse(lexed.toks) ELSE NoParse

\* eval(expr, env): SyntaxError before anything is evaluated.
PyEval(expr, degrees_mode) == EvalParsed(ParseLexed(Lex(expr)), degrees_mode)

(***************************************************************************)
(* The calculator.                                                         *)
(***************************************************************************)
\* The button labels of the grid, row by row.
Rows == << <<"C", "(", ")", "/", "sqrt">>,
           <<"7", "8", "9", "*", "log">>,
           <<"4", "5", "6", "-", "ln">>,
           <<"1", "2", "3", "+", "abs">>,
           <<"0", ".", "=", "%", "pi">>,
           <<"sin", "cos", "tan", "e", "Ans">> >>

Labels == {Rows[r][c] : r \in 1..6, c \in 1..5}

\* The labels whose command inserts text.
InsertLabels == Labels \ {"C", "="}

\* The text shown for a result: "%.12g" of a float, str() of anything else.
ResultStr(result) ==
    IF result.k \in {"float", "dec"} THEN Format12g(result) ELSE PyStr(result)

\* A version of the text of 'Ans' that takes the answer as it was displayed.
DisplayedAnswerText(answer) ==
    IF answer.k # "none" THEN ResultStr(answer) ELSE <<"0">>

\* The text of 'Ans': str(self.last_answer), or "0" while there is none.
AnswerText(answer) == IF answer.k # "none" THEN PyStr(answer) ELSE <<"0">>

\* The text the command of an inserting button passes to _insert, for the
\* last answer as it is when the button is pressed.
InsertedText(label, answer) ==
    CASE label \in {"sin", "cos", "tan", "sqrt", "log", "ln"} ->
          LabelChars(label) \o <<"(">>
      [] label \in {"pi", "e"} -> LabelChars(label)
      [] label = "Ans" -> AnswerText(answer)
      [] OTHER -> LabelChars(label)

RECURSIVE ReplacePercent(_)
\* expression.replace('%', '/100')
ReplacePercent(s) ==
    IF Len(s) = 0 THEN <<>>
    ELSE (IF Head(s) = "%" THEN <<"/", "1", "0", "0">> ELSE <<Head(s)>>)
         \o ReplacePercent(Tail(s))

TitleOf(degrees) ==
    IF degrees THEN "Scientific Calculator - Degrees"
    ELSE "Scientific Calculator - Radians"

Init ==
    /\ expression = <<>>
    /\ screen_var = <<>>
    /\ deg_mode = TRUE
    /\ title = "Scientific Calculator"
    /\ last_answer = NoneVal
    /\ pressed = "none"
    /\ caught = "none"

\* A version of _insert that leaves the display as it is.
InsertWithoutDisplay(tok) ==
    /\ expression' = expression \o tok
    /\ UNCHANGED screen_var

\* _insert
Insert(tok) ==
    /\ expression' = expression \o tok
    /\ screen_var' = expression'

\* A press of an inserting button.
Press(label) ==
    /\ label = "Ans" => ReprModelled(last_answer)
    /\ Insert(InsertedText(label, last_answer))
    /\ pressed' = label
    /\ caught' = "none"
    /\ UNCHANGED <<deg_mode, title, last_answer>>

\* _clear, the command of 'C'.
Clear ==
    /\ expression' = <<>>
    /\ screen_var' = <<>>
    /\ pressed' = "C"
    /\ caught' = "none"
    /\ UNCHANGED <<deg_mode, title, last_answer>>

\* A click on the Degrees (TRUE) or Radians (FALSE) radio button: the
\* variable is set, then _update_mode runs.
SelectMode(value) ==
    /\ deg_mode' = value
    /\ title' = TitleOf(deg_mode')
    /\ pressed' = IF value THEN "Degrees" ELSE "Radians"
    /\ caught' = "none"
    /\ UNCHANGED <<expression, screen_var, last_answer>>

\* A version of _evaluate without the early return.
AlwaysSomethingToEvaluate == FALSE

\* _evaluate returns at once on an empty buffer.
NothingToEvaluate == expression = <<>>

\* A version of the try block that does not keep the result in the buffer.
ShowResultWithoutChaining(result) ==
    /\ screen_var' = ResultStr(result)
    /\ last_answer' = result
    /\ expression' = <<>>
    /\ caught' = "none"

\* The try block ran to its end with this result.
ShowResult(result) ==
    /\ screen_var' = ResultStr(result)
    /\ last_answer' = result
    /\ expression' = screen_var'
    /\ caught' = "none"

\* A version of the except block that leaves the failing text in the buffer.
ExceptHandlerKeepingText(e) ==
    /\ screen_var' = ErrorText
    /\ caught' = e
    /\ UNCHANGED <<expression, last_answer>>

\* The except block, for the exception e.
ExceptHandler(e) ==
    /\ screen_var' = ErrorText
    /\ expression' = <<>>
    /\ caught' = e
    /\ UNCHANGED last_answer

\* The text shown for the result is modelled.
ResultModelled(result) == IF result.k = "float" THEN TRUE ELSE ReprModelled(result)

\* The try statement, for the outcome r of eval.
Try(r) ==
    IF r.ok THEN ResultModelled(r.v) /\ ShowResult(r.v)
    ELSE r.err # "Unmodelled" /\ ExceptHandler(r.err)

\* _evaluate, the command of '='.
Evaluate ==
    /\ pressed' = "="
    /\ UNCHANGED <<deg_mode, title>>
    /\ IF NothingToEvaluate
       THEN caught' = "none" /\ UNCHANGED <<expression, screen_var, last_answer>>
       ELSE Try(PyEval(ReplacePercent(expression), deg_mode))

(***************************************************************************)
(* Keyboards: the buttons a run presses.  A run types freely while the     *)
(* buffer stays within a length, or types towards one of a set of texts.   *)
(***************************************************************************)
ArithKeys == {"5", "/", "%"}

AnsKeys == {"3", "/", "Ans"}

ErrKeys == {"0", "/", "abs", "log", ")"}

FnKeys == {"sin", "cos", "tan", "sqrt", "log", "ln", "abs", "pi", "e"}

TrigKeys == {"sin", "cos", "tan", "3", "0", ")"}

TrigNames == {"sin", "cos", "tan"}

TrigArgs == {<<"3">>, <<"3", "0">>}

\* The text f(n).
TrigCall(f, n) == LabelChars(f) \o <<"(">> \o n \o <<")">>

TrigTexts == {TrigCall(f, n) : f \in TrigNames, n \in TrigArgs}

IsPrefix(s, t) == Len(s) <= Len(t) /\ SubSeq(t, 1, Len(s)) = s

\* A key that leaves the buffer with at most maxlen characters.
TypeKey(keys, maxlen) ==
    \E label \in keys :
        /\ Len(expression \o InsertedText(label, last_answer)) <= maxlen
        /\ Press(label)

\* A key that leaves the buffer a prefix of one of the texts.
TypeText(keys, texts) ==
    \E label \in keys :
        /\ \E t \in texts : IsPrefix(expression \o InsertedText(label, last_answer), t)
        /\ Press(label)

Controls == Clear \/ Evaluate \/ SelectMode(TRUE) \/ SelectMode(FALSE)

Next == TypeKey(ArithKeys, MaxLenArith) \/ Controls

NextAns == TypeKey(AnsKeys, MaxLenAns) \/ Controls

NextErr == TypeKey(ErrKeys, MaxLenErr) \/ Controls

NextFn == TypeKey(FnKeys, MaxLenFn) \/ Controls

NextTrig == TypeText(TrigKeys, TrigTexts) \/ Controls

Spec == Init /\ [][Next]_vars

SpecAns == Init /\ [][NextAns]_vars

SpecErr == Init /\ [][NextErr]_vars

SpecFn == Init /\ [][NextFn]_vars

SpecTrig == Init /\ [][NextTrig]_vars

(***************************************************************************)
(* Properties.  A step of '=' is a step that leaves pressed' = "=": only   *)
(* Evaluate does.  Formulas of the form [][A]_vars say nothing of          *)
(* stuttering steps.                                                       *)
(***************************************************************************)
AllDigits(s) == \A i \in 1..Len(s) : IsDigit(s[i])

\* A decimal integer literal without a leading zero.
Numeral(s) == Len(s) \in 1..6 /\ AllDigits(s) /\ (Len(s) > 1 => s[1] # "0")

NumeralVal(s) == IntVal(NatOf(DigitsOf(s, 1, Len(s) + 1)))

Hundredth(v) == PyTrueDiv(v, IntVal(100))

\* a / r for the outcome r of the divisor: its exception goes through.
DividedBy(a, r) == IF r.ok THEN PyTrueDiv(a, r.v) ELSE r

\* The step ends the way _evaluate ends on the outcome r of the evaluation.
Outcome(r) ==
    IF r.ok
    THEN /\ caught' = "none"
         /\ screen_var' = ResultStr(r.v)
         /\ expression' = screen_var'
         /\ last_answer' = r.v
    ELSE /\ caught' # "none"
         /\ screen_var' = ErrorText
         /\ expression' = <<>>
         /\ last_answer' = last_answer

\* The state a successful evaluation leaves.
AfterSuccess == pressed = "=" /\ caught = "none" /\ expression # <<>>

\* C1: whenever '=' is pressed on a non-empty buffer whose evaluation fails
\* (syntax error, undefined name, division by zero, domain error, wrong
\* operand type), the display is exactly "Error" and the buffer is empty
\* afterwards: the handler catches the exception and no failing text stays.
C1_FailureShowsErrorAndEmptiesBuffer ==
    [][(pressed' = "=" /\ expression # <<>>
        /\ ~PyEval(ReplacePercent(expression), deg_mode).ok)
       => (caught' # "none" /\ screen_var' = ErrorText /\ expression' = <<>>)]_vars

\* A domain error (the logarithm of zero) was caught.
C1_Witness ==
    pressed = "=" /\ caught = "ValueError" /\ screen_var = ErrorText /\ expression = <<>>

\* The text shown for f(n) when the flag is degrees at the evaluation: the
\* library function on the converted argument, or on the argument itself.
TrigShown(f, n, degrees) ==
    ResultStr(MathFn(f, IF degrees THEN MathRadians(ToFloat(NumeralVal(n))).v
                        ELSE ToFloat(NumeralVal(n))).v)

\* C2: sin, cos and tan read the degrees/radians flag as it stands when '='
\* is pressed: in degrees mode the library function is applied to the
\* argument converted to radians, in radians mode to the argument itself,
\* whatever the flag was while the buffer was typed; "sin(30)" shows 0.5 in
\* degrees mode and -0.988031624093 in radians mode.
C2_TrigReadsModeAtEvaluate ==
    [][pressed' = "=" =>
         /\ \A f \in TrigNames, n \in TrigArgs :
              expression = TrigCall(f, n) =>
                  caught' = "none" /\ screen_var' = TrigShown(f, n, deg_mode)
         /\ expression = TrigCall("sin", <<"3", "0">>) =>
              screen_var' = IF deg_mode THEN <<"0", ".", "5">>
                            ELSE <<"-", "0", ".", "9", "8", "8", "0", "3", "1",
                                   "6", "2", "4", "0", "9", "3">>]_vars

\* "sin(30)" was evaluated in radians mode.
C2_Witness ==
    /\ pressed = "=" /\ ~deg_mode
    /\ last_answer = DecVal(TRUE, <<9, 8, 8, 0, 3, 1, 6, 2, 4, 0, 9, 2, 8, 6, 1, 8>>, -1)
    /\ screen_var = <<"-", "0", ".", "9", "8", "8", "0", "3", "1", "6", "2", "4", "0",
                      "9", "3">>

\* The buffer is a '/' b '%' with numerals a and b, the '/' at position i.
QuotientPercent(i) ==
    /\ expression[i] = "/"
    /\ Numeral(SubSeq(expression, 1, i - 1))
    /\ expression[Len(expression)] = "%"
    /\ Numeral(SubSeq(expression, i + 1, Len(expression) - 1))

\* The buffer is a numeral followed by one final '%'.
NumeralPercent ==
    /\ expression # <<>>
    /\ expression[Len(expression)] = "%"
    /\ Numeral(SubSeq(expression, 1, Len(expression) - 1))

\* C3: each '%' divides the number it follows by 100 wherever it occurs: a
\* numeral N followed by a final '%' evaluates to N/100, and in a/b% the
\* '%' divides b, so that a/b% evaluates to a/(b/100).
C3_PercentDividesTheNumberItFollows ==
    [][pressed' = "=" =>
         /\ NumeralPercent =>
              Outcome(Hundredth(NumeralVal(SubSeq(expression, 1, Len(expression) - 1))))
         /\ \A i \in 1..Len(expression) :
              QuotientPercent(i) =>
                 Outcome(DividedBy(NumeralVal(SubSeq(expression, 1, i - 1)),
                                   Hundredth(NumeralVal(
                                     SubSeq(expression, i + 1, Len(expression) - 1)))))]_vars

\* C4: 'Ans' appends the text (str) of the result of the most recent
\* successful evaluation, or "0" while there has been none; the remembered
\* answer changes only when an evaluation succeeds, and then it is that
\* evaluation's result: failed evaluations, 'C', mode clicks and insertions
\* leave it as it was.
C4_AnsInsertsLastSuccessfulResult ==
    [][/\ pressed' = "Ans" =>
            /\ expression' = expression
                 \o (IF last_answer = NoneVal THEN <<"0">> ELSE PyStr(last_answer))
            /\ last_answer' = last_answer
       /\ last_answer' # last_answer =>
            pressed' = "=" /\ caught' = "none" /\ expression # <<>>
       /\ (pressed' = "=" /\ caught' = "none" /\ expression # <<>>) =>
            Ok(last_answer') = PyEval(ReplacePercent(expression), deg_mode)]_vars

\* After "3/3" gave 1.0 (shown as "1"), '/' and then 'Ans' were pressed.
C4_Witness ==
    /\ pressed = "Ans"
    /\ last_answer = FloatVal(FALSE, 1, 1, TRUE)
    /\ expression = <<"/", "1", ".", "0">>

\* C5: every evaluation that does not end in the error state
\* produces a number: the previous answer is unset or a number, and after a
\* successful '=' the display is the text of that number.
C5_ResultsAreNumbers ==
    /\ last_answer = NoneVal \/ IsNumber(last_answer)
    /\ AfterSuccess => IsNumber(last_answer) /\ screen_var = ResultStr(last_answer)

FunctionButtons == {"sin", "cos", "tan", "sqrt", "log", "ln", "abs"}

ConstantButtons == {"pi", "e"}

\* C6: each of the function buttons sin, cos, tan, sqrt, log,
\* ln and abs appends its name followed by "(" to the buffer, and the
\* constant buttons pi and e append their name alone.
C6_FunctionButtonsOpenAParenthesis ==
    [][/\ \A f \in FunctionButtons :
            pressed' = f => expression' = expression \o LabelChars(f) \o <<"(">>
       /\ \A c \in ConstantButtons :
            pressed' = c => expression' = expression \o LabelChars(c)]_vars

\* C7: after a successful evaluation the buffer is the displayed result,
\* and the next inserted token is appended to that text; after a failed
\* evaluation the next inserted token starts from the empty buffer and
\* replaces "Error" on the display.
C7_ChainingAfterEvaluation ==
    [][/\ (pressed' = "=" /\ caught' = "none" /\ expression # <<>>) =>
            expression' = screen_var' /\ expression' # <<>>
       /\ (AfterSuccess /\ pressed' \in InsertLabels) =>
            /\ expression' = screen_var \o InsertedText(pressed', last_answer)
            /\ screen_var' = expression'
       /\ (pressed = "=" /\ caught # "none" /\ pressed' \in InsertLabels) =>
            /\ screen_var = ErrorText
            /\ expression' = InsertedText(pressed', last_answer)
            /\ screen_var' = expression']_vars

\* '3' was pressed after "3/3" was evaluated and shown as "1".
C7_Witness ==
    /\ pressed = "3"
    /\ last_answer = FloatVal(FALSE, 1, 1, TRUE)
    /\ expression = <<"1", "3">>
    /\ screen_var = <<"1", "3">>

\* C8: '=' on an empty buffer does nothing: the display (a lingering
\* "Error" included), the buffer, the previous answer and the mode are
\* unchanged and no exception is caught.
C8_EvaluateOnEmptyBufferIsNoOp ==
    [][(pressed' = "=" /\ expression = <<>>) =>
          /\ UNCHANGED <<expression, screen_var, last_answer, deg_mode, title>>
          /\ caught' = "none"]_vars

\* '=' was pressed on the empty buffer a failure left: "Error" stays.
C8_Witness ==
    pressed = "=" /\ caught = "none" /\ expression = <<>> /\ screen_var = ErrorText

\* The characters of the texts the calculator builds.
Characters ==
    Letters \cup {DigitChars[d] : d \in 1..10}
    \cup {"+", "-", "*", "/", "(", ")", ".", "%", "<", ">", " ", "A"}

\* C9: after any sequence of operations the display equals the buffer,
\* except in the error state, where the display is "Error" and the buffer
\* is empty; the buffer is always text.
C9_DisplayMirrorsBuffer ==
    /\ screen_var = expression \/ (screen_var = ErrorText /\ expression = <<>>)
    /\ \A i \in 1..Len(expression) : expression[i] \in Characters

\* The error state, kept across a click on Radians.
C9_Witness ==
    pressed = "Radians" /\ screen_var = ErrorText /\ expression = <<>>

\* C10: when '=' has succeeded and is pressed again at once,
\* the second evaluation succeeds too and leaves the display and the buffer
\* as the first left them.
C10_EvaluateTwiceIsIdempotent ==
    [][(AfterSuccess /\ pressed' = "=") =>
          caught' = "none" /\ screen_var' = screen_var /\ expression' = expression]_vars

====
